---- MODULE Spec2Model ----
(***************************************************************************)
(* State-machine model of the AEIPTV sales bot (src/aeiptv_bot.py).        *)
(*                                                                         *)
(* Strings whose characters the code inspects (phone texts) are sequences  *)
(* of one-character strings.  A Python dict is a function whose DOMAIN is  *)
(* the set of keys present, so "key missing" and "key present" differ as   *)
(* they do in the code.  One handler call is one atomic action; the        *)
(* collaborator calls that can fail inside it (answering the callback,     *)
(* editing a message, sending to the user chat, notifying the admin,       *)
(* writing the history file) fail as chosen by the fault input.            *)
(***************************************************************************)
EXTENDS Integers, Sequences, FiniteSets, TLC

VARIABLES
    USER_STATE,  \* chat_id -> dict, only for the chats that have an entry
    ledger,      \* lines of customers.jsonl, oldest first
    admin,       \* messages delivered to ADMIN_CHAT_ID, oldest first
    clock,       \* datetime.now(), in whole seconds
    ev,          \* the update handled last
    out,         \* messages delivered to the user chat by the last handler
    raised,      \* exception the last handler raised to its caller, "" if none
    log,         \* logging.warning / logging.error records of the last handler
    pos,         \* how many updates of the reference Scenario the run has followed
                 \* from its first update on, -1 once it has left the Scenario
    queue,       \* Application.update_queue: updates received and not yet dispatched
    flight,      \* handler coroutines started and not yet returned, each at an await
    ideal        \* the stores had every received update been handled in order of receipt

vars == <<USER_STATE, ledger, admin, clock, ev, out, raised, log, pos, queue, flight, ideal>>

---------------------------------------------------------------------------
(* Bounds of the model *)

MaxLedger == 2
MaxAdmin == 2
MaxClock == 1
MaxTextLen == 7
MaxSends == 2
MaxQueue == 2
MaxFlight == 2

---------------------------------------------------------------------------
(* Configuration and catalog *)

PACKAGES ==
    [n \in {"AEIPTV Kids", "AEIPTV Casual", "AEIPTV Executive", "AEIPTV Premium"} |->
        CASE n = "AEIPTV Kids" ->
                [code |-> "kids", price_aed |-> 70,
                 payment_url |-> "https://buy.stripe.com/3cIbJ29I94yA92g2AV5kk04"]
          [] n = "AEIPTV Casual" ->
                [code |-> "casual", price_aed |-> 75,
                 payment_url |-> "https://buy.stripe.com/6oU6oIf2t8OQa6kejD5kk03"]
          [] n = "AEIPTV Executive" ->
                [code |-> "executive", price_aed |-> 200,
                 payment_url |-> "https://buy.stripe.com/8x23cw07zghi4M0ejD5kk05"]
          [] n = "AEIPTV Premium" ->
                [code |-> "premium", price_aed |-> 250,
                 payment_url |-> "https://buy.stripe.com/eVq00k7A15CE92gdfz5kk01"]]

\* ADMIN_CHAT_ID is a non-zero number, so every "if ADMIN_CHAT_ID:" is taken.
ADMIN_CHAT_ID == "7698278415"

None == "None"

---------------------------------------------------------------------------
(* Characters and phone handling *)

Digits == {"0", "1", "2", "3", "4", "5", "6", "7", "8", "9"}
Whitespace == {" "}
\* the class [\d\s\-()] of PHONE_RE
PhoneBodyChars == Digits \cup Whitespace \cup {"-", "(", ")"}

RECURSIVE LStrip(_)
LStrip(s) == IF s # <<>> /\ Head(s) \in Whitespace THEN LStrip(Tail(s)) ELSE s

RECURSIVE RStrip(_)
RStrip(s) ==
    IF s # <<>> /\ s[Len(s)] \in Whitespace THEN RStrip(SubSeq(s, 1, Len(s) - 1)) ELSE s

\* str.strip()
Strip(s) == RStrip(LStrip(s))

\* PHONE_RE.match(s): ^\+?\d[\d\s\-()]{6,}$
PHONE_RE(s) ==
    LET body == IF s # <<>> /\ Head(s) = "+" THEN Tail(s) ELSE s
    IN  /\ Len(body) >= 7
        /\ body[1] \in Digits
        /\ \A i \in 2..Len(body) : body[i] \in PhoneBodyChars

\* re.sub(r"[^\d+]", "", s)
RECURSIVE KeepDigitsPlus(_)
KeepDigitsPlus(s) ==
    IF s = <<>> THEN <<>>
    ELSE IF Head(s) \in Digits \cup {"+"} THEN <<Head(s)>> \o KeepDigitsPlus(Tail(s))
    ELSE KeepDigitsPlus(Tail(s))

normalize_phone(s0) ==
    LET s == Strip(s0)
        t == IF Len(s) >= 2 /\ s[1] = "0" /\ s[2] = "0"
             THEN <<"+">> \o SubSeq(s, 3, Len(s))
             ELSE s
    IN  KeepDigitsPlus(t)

---------------------------------------------------------------------------
(* Session dictionaries *)

EmptyDict == <<>>

\* dict.get(key, default)
DictGet(d, key, default) == IF key \in DOMAIN d THEN d[key] ELSE default

\* dict.update(kv) for one key
DictPut(d, key, val) ==
    [k \in DOMAIN d \cup {key} |-> IF k = key THEN val ELSE d[k]]

\* USER_STATE.get(chat_id, {}) on the store u
Session(u, c) == IF c \in DOMAIN u THEN u[c] ELSE EmptyDict

\* variant: every conversation's entry is one shared dict
set_state_shared(u, c, key, val) ==
    [k \in DOMAIN u \cup {c} |-> DictPut(Session(u, k), key, val)]

\* set_state(chat_id, key=val) on the store u
set_state(u, c, key, val) ==
    [k \in DOMAIN u \cup {c} |-> IF k = c THEN DictPut(Session(u, c), key, val) ELSE u[k]]

get_lang(u, c) == DictGet(Session(u, c), "lang", "ar")

---------------------------------------------------------------------------
(* Messages *)

\* t(chat_id, key) rendered for the chat's language; arg is the format argument
Msg(u, c, key, arg) == [key |-> key, lang |-> get_lang(u, c), arg |-> arg, url |-> ""]

\* a literal text that is not looked up in I18N
Literal(key) == [key |-> key, lang |-> "-", arg |-> "", url |-> ""]

Via(msg, via) ==
    [key |-> msg.key, lang |-> msg.lang, arg |-> msg.arg, url |-> msg.url, via |-> via]

\* the payment instructions with pay_kb's "Pay Now" link
PayMsg(u, c, pkg_name) ==
    [key |-> "payment_instructions", lang |-> get_lang(u, c), arg |-> pkg_name,
     url |-> PACKAGES[pkg_name].payment_url]

Note(kind, c, package, phone) ==
    [kind |-> kind, to |-> ADMIN_CHAT_ID, chat |-> c, package |-> package, phone |-> phone]

Pending == <<"pending">>

---------------------------------------------------------------------------
(* One handler run: the stores as the handler has changed them so far, what *)
(* it has delivered and logged, the exception that ended it, and the count  *)
(* of sends to the user chat it has attempted.                              *)

Begin(u, led, adm) ==
    [u |-> u, led |-> led, adm |-> adm, out |-> <<>>, raised |-> "", log |-> <<>>, n |-> 0]

NoFault == [answer |-> FALSE, edit |-> FALSE, send |-> 0, admin |-> FALSE, disk |-> FALSE]

\* await query.answer()
Answer(r, f) ==
    IF r.raised # "" THEN r
    ELSE IF f.answer THEN [r EXCEPT !.raised = "TelegramError"]
    ELSE r

\* set_state(chat_id, key=val) as a step of a handler
SetState(r, c, key, val) ==
    IF r.raised # "" THEN r ELSE [r EXCEPT !.u = set_state(r.u, c, key, val)]

\* an unguarded await of context.bot.send_message(chat_id=chat_id, ...) or
\* update.message.reply_text(...): the f.send-th such call of the handler fails
SendChat(r, f, msg) ==
    IF r.raised # "" THEN r
    ELSE IF f.send = r.n + 1 THEN [r EXCEPT !.raised = "TelegramError", !.n = @ + 1]
    ELSE [r EXCEPT !.out = Append(@, Via(msg, "send")), !.n = @ + 1]

safe_edit_or_send(r, f, msg, kbIsReply) ==
    IF r.raised # "" THEN r
    ELSE IF ~f.edit
    THEN LET e == [r EXCEPT !.out = Append(@, Via(msg, "edit"))]
         IN  IF ~kbIsReply THEN e
             ELSE IF f.send # e.n + 1
             THEN [e EXCEPT !.out = Append(@, Via(msg, "send")), !.n = @ + 1]
             ELSE [e EXCEPT !.log = Append(@, "edit_failed"),
                            !.out = Append(@, Via(msg, "send")), !.n = @ + 2]
    ELSE LET w == [r EXCEPT !.log = Append(@, "edit_failed"), !.n = @ + 1]
         IN  IF f.send # r.n + 1
             THEN [w EXCEPT !.out = Append(@, Via(msg, "send"))]
             ELSE [w EXCEPT !.log = Append(@, "send_fallback_failed")]

\* variant: the except clause logs and re-raises
NotifyAdminReraises(r, f, note) ==
    IF r.raised # "" THEN r
    ELSE IF f.admin
    THEN [r EXCEPT !.log = Append(@, "admin_notify_failed"), !.raised = "TelegramError"]
    ELSE [r EXCEPT !.adm = Append(@, note)]

\* the "if ADMIN_CHAT_ID: try: send_message(ADMIN_CHAT_ID) except: log" block
NotifyAdmin(r, f, note) ==
    IF r.raised # "" THEN r
    ELSE IF f.admin THEN [r EXCEPT !.log = Append(@, "admin_notify_failed")]
    ELSE [r EXCEPT !.adm = Append(@, note)]

save_customer(r, f, c, package, phone, now) ==
    LET rec == [chat_id |-> c, package |-> package, phone |-> phone, ts |-> now]
    IN  IF r.raised # "" THEN r
        ELSE IF f.disk THEN [r EXCEPT !.log = Append(@, "history_write_failed")]
        ELSE [r EXCEPT !.led = Append(@, rec)]

---------------------------------------------------------------------------
(* Handlers.  Callback data is the sequence of its "|"-separated segments:  *)
(* <<"pkg", "AEIPTV Kids">> is "pkg|AEIPTV Kids", <<"subscribe">> is        *)
(* "subscribe".  Inputs have at most two segments.                          *)

\* data.startswith(head + "|")
StartsWith(data, head) == Len(data) >= 2 /\ data[1] = head

\* _, x = data.split("|", 1)
SplitArg(data) == data[2]

\* variant: the catalog lookup is skipped
InCatalogAny(pkg_name) == TRUE

\* pkg_name in PACKAGES
InCatalog(pkg_name) == pkg_name \in DOMAIN PACKAGES

\* variant: on_button has no language gate
NoLangNever(u, c) == FALSE

\* "lang" not in USER_STATE.get(chat_id, {})
NoLang(u, c) == "lang" \notin DOMAIN Session(u, c)

\* start / help_cmd
start(u, led, adm, c, f) ==
    SendChat(Begin(u, led, adm), f, Msg(u, c, "pick_lang", ""))

\* any_text, the branch of a text that matches PHONE_RE
phone_accepted(r, f, c, txt, now) ==
    LET phone == normalize_phone(txt)
        r1 == SetState(SetState(r, c, "phone", phone), c, "awaiting_phone", FALSE)
        package == DictGet(Session(r1.u, c), "package", None)
        r2 == save_customer(r1, f, c, package, phone, now)
        r3 == NotifyAdmin(r2, f, Note("phone", c, package, phone))
        r4 == SendChat(r3, f, Msg(r3.u, c, "phone_saved", ""))
    IN  SendChat(r4, f, Msg(r4.u, c, "thank_you", ""))

\* variant: a rejected text ends the wait for a phone
phone_rejected_clears(r, f, c) ==
    LET r1 == SetState(r, c, "awaiting_phone", FALSE)
    IN  SendChat(r1, f, Msg(r1.u, c, "phone_invalid", ""))

\* any_text, the branch of a text that does not match PHONE_RE
phone_rejected(r, f, c) ==
    SendChat(r, f, Msg(r.u, c, "phone_invalid", ""))

any_text(u, led, adm, c, text, f, now) ==
    LET r == Begin(u, led, adm)
        st == Session(u, c)
        txt == Strip(text)
    IN  IF DictGet(st, "awaiting_phone", FALSE) /\ txt # <<>>
        THEN IF PHONE_RE(txt) THEN phone_accepted(r, f, c, txt, now)
             ELSE phone_rejected(r, f, c)
        ELSE IF "lang" \notin DOMAIN st
        THEN SendChat(r, f, Msg(u, c, "pick_lang", ""))
        ELSE SendChat(r, f, Msg(u, c, "welcome", ""))

on_contact(u, led, adm, c, number, f, now) ==
    LET phone == normalize_phone(number)
        r1 == SetState(SetState(Begin(u, led, adm), c, "phone", phone),
                       c, "awaiting_phone", FALSE)
        package == DictGet(Session(r1.u, c), "package", None)
        r2 == save_customer(r1, f, c, package, phone, now)
        r3 == NotifyAdmin(r2, f, Note("contact", c, package, phone))
        r4 == SendChat(r3, f, Msg(r3.u, c, "phone_saved", ""))
    IN  SendChat(r4, f, Msg(r4.u, c, "thank_you", ""))

\* variant: the chosen tag is stored without the supported-set test
button_lang_unchecked(r, f, c, data) ==
    LET r1 == SetState(r, c, "lang", SplitArg(data))
    IN  safe_edit_or_send(r1, f, Msg(r1.u, c, "welcome", ""), FALSE)

\* on_button, data.startswith("lang|")
button_lang(r, f, c, data) ==
    LET tag == SplitArg(data)
        lang == IF tag \notin {"ar", "en"} THEN "ar" ELSE tag
        r1 == SetState(r, c, "lang", lang)
    IN  safe_edit_or_send(r1, f, Msg(r1.u, c, "welcome", ""), FALSE)

\* on_button, data.startswith("pkg|")
button_pkg(r, f, c, data) ==
    LET pkg_name == SplitArg(data)
    IN  IF ~InCatalog(pkg_name)
        THEN safe_edit_or_send(r, f, Literal("Package not found."), FALSE)
        ELSE LET r1 == SetState(r, c, "package", pkg_name)
                 r2 == SendChat(r1, f, Msg(r1.u, c, "breadcrumb_sel", pkg_name))
             IN  safe_edit_or_send(r2, f, Msg(r2.u, c, "package_detail", pkg_name), FALSE)

\* pay_kb(chat_id, pkg_name): PACKAGES[pkg_name] raises KeyError on a missing key
pay_kb(r, pkg_name) ==
    IF r.raised # "" THEN r
    ELSE IF pkg_name \in DOMAIN PACKAGES THEN r
    ELSE [r EXCEPT !.raised = "KeyError"]

\* on_button, data.startswith("agree|")
button_agree(r, f, c, data) ==
    LET pkg_name == SplitArg(data)
        r1 == SendChat(r, f, Msg(r.u, c, "breadcrumb_agree", pkg_name))
        r2 == pay_kb(r1, pkg_name)
    IN  IF r2.raised # "" THEN r2
        ELSE safe_edit_or_send(r2, f, PayMsg(r2.u, c, pkg_name), FALSE)

\* on_button, data.startswith("paid|")
button_paid(r, f, c, data) ==
    LET pkg_name == SplitArg(data)
        selection == DictGet(Session(r.u, c), "package", pkg_name)
        r1 == SendChat(r, f, Msg(r.u, c, "breadcrumb_paid", selection))
        r2 == SetState(r1, c, "awaiting_phone", TRUE)
        r3 == SendChat(r2, f, Msg(r2.u, c, "phone_request", ""))
    IN  NotifyAdmin(r3, f, Note("paid_clicked", c, selection, Pending))

\* variant: the fallback also abandons the pending phone request
button_unknown_resets(r, f, c) ==
    LET r1 == SetState(r, c, "awaiting_phone", FALSE)
    IN  safe_edit_or_send(r1, f, Msg(r1.u, c, "welcome", ""), FALSE)

\* on_button, data that matches no action
button_unknown(r, f, c) ==
    safe_edit_or_send(r, f, Msg(r.u, c, "welcome", ""), FALSE)

on_button(u, led, adm, c, data, f) ==
    LET r == Answer(Begin(u, led, adm), f)
    IN  IF StartsWith(data, "lang") THEN button_lang(r, f, c, data)
        ELSE IF NoLang(u, c)
        THEN safe_edit_or_send(r, f, Msg(u, c, "pick_lang", ""), FALSE)
        ELSE IF data = <<"more_info">>
        THEN safe_edit_or_send(r, f, Msg(u, c, "more_info", ""), FALSE)
        ELSE IF data = <<"subscribe">>
        THEN safe_edit_or_send(r, f, Msg(u, c, "subscribe_pick", ""), FALSE)
        ELSE IF data = <<"back_home">>
        THEN safe_edit_or_send(r, f, Msg(u, c, "welcome", ""), FALSE)
        ELSE IF StartsWith(data, "pkg") THEN button_pkg(r, f, c, data)
        ELSE IF StartsWith(data, "agree") THEN button_agree(r, f, c, data)
        ELSE IF StartsWith(data, "paid") THEN button_paid(r, f, c, data)
        ELSE button_unknown(r, f, c)

---------------------------------------------------------------------------
(* Inputs *)

Chats == {1}

Plus971 == <<"+", "9", "7", "1", "5", "0", "1", "2", "3", "4", "5", "6", "7">>
Zero971 == <<"0", "0", "9", "7", "1", " ", "5", "0", " ", "1", "2", "3", " ",
             "4", "5", "6", "7">>
TXN123 == <<"T", "X", "N", "1", "2", "3">>
Short123 == <<"1", "2", "3">>

Texts == {Plus971, Zero971, TXN123, Short123}

\* contact.phone_number as the platform delivers it, or "" for a missing one
Numbers == {Plus971}

Tokens ==
    { <<"lang", "en">>, <<"lang", "ar">>, <<"lang", "fr">>,
      <<"more_info">>, <<"subscribe">>, <<"back_home">>,
      <<"pkg", "AEIPTV Premium">>, <<"pkg", "Ghost">>,
      <<"agree", "AEIPTV Premium">>, <<"agree", "Ghost">>,
      <<"paid", "AEIPTV Premium">>, <<"paid", "Ghost">>,
      <<"noop">>, <<"paid">> }

\* the buttons of one purchase, for the specifications with many other inputs
FlowTokens ==
    { <<"lang", "en">>, <<"subscribe">>, <<"pkg", "AEIPTV Premium">>,
      <<"agree", "AEIPTV Premium">>, <<"paid", "AEIPTV Premium">> }

\* choose language en, subscribe, select Premium, agree, I paid, phone, proof
Scenario ==
    << [kind |-> "button", chat |-> 1, data |-> <<"lang", "en">>],
       [kind |-> "button", chat |-> 1, data |-> <<"subscribe">>],
       [kind |-> "button", chat |-> 1, data |-> <<"pkg", "AEIPTV Premium">>],
       [kind |-> "button", chat |-> 1, data |-> <<"agree", "AEIPTV Premium">>],
       [kind |-> "button", chat |-> 1, data |-> <<"paid", "AEIPTV Premium">>],
       [kind |-> "text", chat |-> 1, data |-> Plus971],
       [kind |-> "text", chat |-> 1, data |-> TXN123] >>

PhoneAlphabet == {"+", "0", " ", "a"}

\* every text of at most MaxTextLen characters over PhoneAlphabet
PhoneTexts == UNION {[1..k -> PhoneAlphabet] : k \in 1..MaxTextLen}

\* at most one collaborator fails during one update, or the edit and its fallback
Faults ==
    {NoFault}
    \cup {[NoFault EXCEPT !.answer = TRUE], [NoFault EXCEPT !.edit = TRUE],
          [NoFault EXCEPT !.admin = TRUE], [NoFault EXCEPT !.disk = TRUE]}
    \cup {[NoFault EXCEPT !.send = k] : k \in 1..MaxSends}
    \cup {[NoFault EXCEPT !.edit = TRUE, !.send = k] : k \in 1..MaxSends}

---------------------------------------------------------------------------
(* The state machine *)

Init ==
    /\ USER_STATE = <<>>
    /\ ledger = <<>>
    /\ admin = <<>>
    /\ clock = 0
    /\ ev = [kind |-> "none", chat |-> 0, data |-> <<>>]
    /\ out = <<>>
    /\ raised = ""
    /\ log = <<>>
    /\ pos = 0
    /\ queue = <<>>
    /\ flight = <<>>
    /\ ideal = [u |-> <<>>, led |-> <<>>, adm |-> <<>>]

\* the stores and the observations after a handler run r for the update e
Handled(kind, c, data, r) ==
    /\ Len(r.led) <= MaxLedger
    /\ Len(r.adm) <= MaxAdmin
    /\ USER_STATE' = r.u
    /\ ledger' = r.led
    /\ admin' = r.adm
    /\ ev' = [kind |-> kind, chat |-> c, data |-> data]
    /\ out' = r.out
    /\ raised' = r.raised
    /\ log' = r.log
    /\ pos' = IF pos >= 0 /\ pos < Len(Scenario) /\ r.raised = "" /\ r.log = <<>>
                  /\ Scenario[pos + 1] = [kind |-> kind, chat |-> c, data |-> data]
               THEN pos + 1
               ELSE -1
    /\ UNCHANGED <<clock, queue, flight, ideal>>

Start(c, f) ==
    Handled("start", c, <<>>, start(USER_STATE, ledger, admin, c, f))

AnyText(c, text, f) ==
    Handled("text", c, text, any_text(USER_STATE, ledger, admin, c, text, f, clock))

OnContact(c, number, f) ==
    Handled("contact", c, number,
            on_contact(USER_STATE, ledger, admin, c, number, f, clock))

OnButton(c, data, f) ==
    Handled("button", c, data, on_button(USER_STATE, ledger, admin, c, data, f))

Tick ==
    /\ clock < MaxClock
    /\ clock' = clock + 1
    /\ UNCHANGED <<USER_STATE, ledger, admin, ev, out, raised, log, pos, queue, flight, ideal>>

\* every collaborator delivers
Next ==
    \/ \E c \in Chats : Start(c, NoFault)
    \/ \E c \in Chats, text \in Texts : AnyText(c, text, NoFault)
    \/ \E c \in Chats, number \in Numbers : OnContact(c, number, NoFault)
    \/ \E c \in Chats, data \in Tokens : OnButton(c, data, NoFault)
    \/ Tick

Spec == Init /\ [][Next]_vars

\* collaborators fail as the fault input says
NextFaults ==
    \/ \E c \in Chats, f \in Faults : Start(c, f)
    \/ \E c \in Chats, text \in {Plus971, TXN123}, f \in Faults : AnyText(c, text, f)
    \/ \E c \in Chats, number \in Numbers, f \in Faults : OnContact(c, number, f)
    \/ \E c \in Chats, data \in FlowTokens, f \in Faults : OnButton(c, data, f)

SpecFaults == Init /\ [][NextFaults]_vars

\* only the user chat fails: an edit, one unguarded send, or the edit and its fallback
ChatFaults == {f \in Faults : ~f.answer /\ ~f.admin /\ ~f.disk}

NextChat ==
    \/ \E c \in Chats, text \in {Plus971, TXN123}, f \in ChatFaults : AnyText(c, text, f)
    \/ \E c \in Chats, data \in FlowTokens, f \in ChatFaults : OnButton(c, data, f)

SpecChat == Init /\ [][NextChat]_vars

\* two conversations whose updates interleave in any order
TwoChats == {1, 2}

TwoTokens ==
    { <<"lang", "en">>, <<"lang", "ar">>, <<"pkg", "AEIPTV Premium">>,
      <<"paid", "AEIPTV Premium">> }

NextTwo ==
    \/ \E c \in TwoChats, text \in {Plus971} : AnyText(c, text, NoFault)
    \/ \E c \in TwoChats, data \in TwoTokens : OnButton(c, data, NoFault)

SpecTwo == Init /\ [][NextTwo]_vars

---------------------------------------------------------------------------
(* The dispatcher.  main builds the Application with the builder's defaults *)
(* (no concurrent_updates) and registers every handler with the default     *)
(* block: the update fetcher takes one update from the queue and awaits its *)
(* handler to the end before it takes the next.  A handler coroutine runs   *)
(* from one await to the next without interruption; here it is resumed one  *)
(* such segment at a time, on the stores as they are at that moment.        *)

\* pc of a coroutine whose last awaited call is pending; it returns next
End == -1

\* the run record a resumed coroutine h continues with
Resumed(h) ==
    [Begin(USER_STATE, ledger, admin) EXCEPT !.out = h.out]

\* on_button from one await to the next: segment h.pc of the coroutine
button_segment(h, r) ==
    LET c == h.e.chat
        data == h.e.data
        single(run) == [r |-> run, pc |-> End, sel |-> h.sel]
    IN  IF h.pc = 0
        THEN [r |-> Answer(r, NoFault), pc |-> 1, sel |-> h.sel]
        ELSE IF StartsWith(data, "lang") THEN single(button_lang(r, NoFault, c, data))
        ELSE IF h.pc = 1 /\ NoLang(r.u, c)
        THEN single(safe_edit_or_send(r, NoFault, Msg(r.u, c, "pick_lang", ""), FALSE))
        ELSE IF data = <<"more_info">>
        THEN single(safe_edit_or_send(r, NoFault, Msg(r.u, c, "more_info", ""), FALSE))
        ELSE IF data = <<"subscribe">>
        THEN single(safe_edit_or_send(r, NoFault, Msg(r.u, c, "subscribe_pick", ""), FALSE))
        ELSE IF data = <<"back_home">>
        THEN single(safe_edit_or_send(r, NoFault, Msg(r.u, c, "welcome", ""), FALSE))
        ELSE IF StartsWith(data, "pkg")
        THEN LET pkg_name == SplitArg(data)
             IN  IF h.pc = 1
                 THEN IF ~InCatalog(pkg_name)
                      THEN single(safe_edit_or_send(r, NoFault,
                                                    Literal("Package not found."), FALSE))
                      ELSE LET r1 == SetState(r, c, "package", pkg_name)
                           IN  [r |-> SendChat(r1, NoFault,
                                               Msg(r1.u, c, "breadcrumb_sel", pkg_name)),
                                pc |-> 2, sel |-> h.sel]
                 ELSE single(safe_edit_or_send(r, NoFault,
                                               Msg(r.u, c, "package_detail", pkg_name), FALSE))
        ELSE IF StartsWith(data, "agree")
        THEN LET pkg_name == SplitArg(data)
             IN  IF h.pc = 1
                 THEN [r |-> SendChat(r, NoFault, Msg(r.u, c, "breadcrumb_agree", pkg_name)),
                       pc |-> 2, sel |-> h.sel]
                 ELSE LET r2 == pay_kb(r, pkg_name)
                      IN  IF r2.raised # "" THEN single(r2)
                          ELSE single(safe_edit_or_send(r2, NoFault,
                                                        PayMsg(r2.u, c, pkg_name), FALSE))
        ELSE IF StartsWith(data, "paid")
        THEN IF h.pc = 1
             THEN LET selection == DictGet(Session(r.u, c), "package", SplitArg(data))
                  IN  [r |-> SendChat(r, NoFault, Msg(r.u, c, "breadcrumb_paid", selection)),
                       pc |-> 2, sel |-> selection]
             ELSE IF h.pc = 2
             THEN LET r2 == SetState(r, c, "awaiting_phone", TRUE)
                  IN  [r |-> SendChat(r2, NoFault, Msg(r2.u, c, "phone_request", "")),
                       pc |-> 3, sel |-> h.sel]
             ELSE single(NotifyAdmin(r, NoFault, Note("paid_clicked", c, h.sel, Pending)))
        ELSE single(button_unknown(r, NoFault, c))

\* any_text from one await to the next: segment h.pc of the coroutine
text_segment(h, r, now) ==
    LET c == h.e.chat
        st == Session(r.u, c)
        txt == Strip(h.e.data)
        single(run) == [r |-> run, pc |-> End, sel |-> h.sel]
    IN  IF h.pc = 0
        THEN IF DictGet(st, "awaiting_phone", FALSE) /\ txt # <<>>
             THEN IF PHONE_RE(txt)
                  THEN LET phone == normalize_phone(txt)
                           r1 == SetState(SetState(r, c, "phone", phone),
                                          c, "awaiting_phone", FALSE)
                           package == DictGet(Session(r1.u, c), "package", None)
                           r2 == save_customer(r1, NoFault, c, package, phone, now)
                       IN  [r |-> NotifyAdmin(r2, NoFault, Note("phone", c, package, phone)),
                            pc |-> 1, sel |-> h.sel]
                  ELSE single(phone_rejected(r, NoFault, c))
             ELSE IF "lang" \notin DOMAIN st
             THEN single(SendChat(r, NoFault, Msg(r.u, c, "pick_lang", "")))
             ELSE single(SendChat(r, NoFault, Msg(r.u, c, "welcome", "")))
        ELSE IF h.pc = 1
        THEN [r |-> SendChat(r, NoFault, Msg(r.u, c, "phone_saved", "")),
              pc |-> 2, sel |-> h.sel]
        ELSE single(SendChat(r, NoFault, Msg(r.u, c, "thank_you", "")))

\* the button data and the text the dispatched conversation sends
DispatchTokens ==
    { <<"lang", "en">>, <<"pkg", "AEIPTV Premium">>, <<"paid", "AEIPTV Premium">> }

DispatchTexts == {Plus971}

\* the handler main registers for the update, run to its end on the stores st
HandlerRun(kind, c, data, st, now) ==
    IF kind = "button" THEN on_button(st.u, st.led, st.adm, c, data, NoFault)
    ELSE any_text(st.u, st.led, st.adm, c, data, NoFault, now)

\* the sequence s without its i-th element
Remove(s, i) == [j \in 1..(Len(s) - 1) |-> IF j < i THEN s[j] ELSE s[j + 1]]

\* polling puts the update at the end of the update queue
Receive(kind, c, data) ==
    LET want == HandlerRun(kind, c, data, ideal, clock)
    IN  /\ Len(queue) < MaxQueue
        /\ Len(want.led) <= MaxLedger
        /\ Len(want.adm) <= MaxAdmin
        /\ queue' = Append(queue, [kind |-> kind, chat |-> c, data |-> data,
                                    want |-> want])
        /\ ideal' = [u |-> want.u, led |-> want.led, adm |-> want.adm]
        /\ UNCHANGED <<USER_STATE, ledger, admin, clock, ev, out, raised, log, pos, flight>>

\* variant: the Application is built with concurrent_updates(True)
ConcurrentUpdates(fl) == TRUE

\* the update fetcher awaits the handler of one update before it takes the next
Serial(fl) == fl = <<>>

\* the update fetcher takes the oldest update and starts its handler
Dispatch ==
    /\ queue # <<>>
    /\ Serial(flight)
    /\ Len(flight) < MaxFlight
    /\ flight' = Append(flight, [e |-> Head(queue), pc |-> 0, sel |-> None,
                                  out |-> <<>>, raised |-> "", log |-> <<>>])
    /\ queue' = Tail(queue)
    /\ UNCHANGED <<USER_STATE, ledger, admin, clock, ev, out, raised, log, pos, ideal>>

\* the call the i-th coroutine awaits returns: it runs to its next await
Step(i) ==
    LET h == flight[i]
        s == IF h.e.kind = "button" THEN button_segment(h, Resumed(h))
             ELSE text_segment(h, Resumed(h), clock)
    IN  /\ h.pc # End
        /\ USER_STATE' = s.r.u
        /\ ledger' = s.r.led
        /\ admin' = s.r.adm
        /\ flight' = [flight EXCEPT ![i] =
                         [h EXCEPT !.pc = IF s.r.raised # "" THEN End ELSE s.pc,
                                   !.sel = s.sel, !.out = s.r.out,
                                   !.raised = s.r.raised, !.log = @ \o s.r.log]]
        /\ UNCHANGED <<clock, ev, out, raised, log, pos, queue, ideal>>

\* the last call the i-th coroutine awaits returns, and the handler returns
Finish(i) ==
    LET h == flight[i]
    IN  /\ h.pc = End
        /\ flight' = Remove(flight, i)
        /\ ev' = [kind |-> h.e.kind, chat |-> h.e.chat, data |-> h.e.data]
        /\ out' = h.out
        /\ raised' = h.raised
        /\ log' = h.log
        /\ pos' = -1
        /\ UNCHANGED <<USER_STATE, ledger, admin, clock, queue, ideal>>

NextDispatch ==
    \/ \E c \in Chats, text \in DispatchTexts : Receive("text", c, text)
    \/ \E c \in Chats, data \in DispatchTokens : Receive("button", c, data)
    \/ Dispatch
    \/ \E i \in 1..Len(flight) : Step(i)
    \/ \E i \in 1..Len(flight) : Finish(i)

SpecDispatch == Init /\ [][NextDispatch]_vars

\* the first text after an "I paid" tap is any text of PhoneTexts
PhoneText ==
    /\ ledger = <<>>
    /\ ev.kind = "button"
    /\ \E c \in Chats :
          /\ DictGet(Session(USER_STATE, c), "awaiting_phone", FALSE)
          /\ \E text \in PhoneTexts : AnyText(c, text, NoFault)

NextPhone ==
    \/ \E c \in Chats, data \in FlowTokens : OnButton(c, data, NoFault)
    \/ PhoneText

SpecPhone == Init /\ [][NextPhone]_vars

---------------------------------------------------------------------------
(* Vocabulary of the properties *)

Packages == DOMAIN PACKAGES

\* callback data pkg|X, agree|X or paid|X whose X is no key of the catalog
StaleToken(data) ==
    Len(data) = 2 /\ data[1] \in {"pkg", "agree", "paid"} /\ data[2] \notin Packages

\* callback data that is none of lang|, more_info, subscribe, back_home, pkg|,
\* agree|, paid|
UnknownToken(data) ==
    /\ ~(Len(data) >= 2 /\ data[1] \in {"lang", "pkg", "agree", "paid"})
    /\ data \notin {<<"more_info">>, <<"subscribe">>, <<"back_home">>}

HasLang(u, c) == "lang" \in DOMAIN Session(u, c)

Awaiting(u, c) == DictGet(Session(u, c), "awaiting_phone", FALSE)

Keys(msgs) == [i \in 1..Len(msgs) |-> msgs[i].key]

Logged(what) == \E i \in 1..Len(log) : log[i] = what

---------------------------------------------------------------------------
(* C1: a button whose package code is stale or unknown (pkg|X, agree|X,     *)
(* paid|X with X no key of the catalog) leaves the session unchanged,       *)
(* renders a reply and raises nothing.  The code does not do this.          *)

C1_StaleCodeIsHarmless ==
    [][ (ev'.kind = "button" /\ StaleToken(ev'.data))
        => /\ USER_STATE' = USER_STATE
           /\ raised' = ""
           /\ out' # <<>> ]_vars

(* C2: a button that matches no known action is answered with exactly the   *)
(* fallback (the menu, or the language prompt when no language is set),     *)
(* changes no session, notifies nobody, appends nothing and raises nothing. *)

C2_UnknownTokenFallsBack ==
    [][ (ev'.kind = "button" /\ UnknownToken(ev'.data))
        => /\ USER_STATE' = USER_STATE
           /\ admin' = admin
           /\ ledger' = ledger
           /\ raised' = ""
           /\ Keys(out') = << IF HasLang(USER_STATE, ev'.chat)
                              THEN "welcome" ELSE "pick_lang" >> ]_vars

\* an unknown button arrived while a phone was awaited, and the menu was shown
C2_Witness ==
    /\ ev.kind = "button"
    /\ UnknownToken(ev.data)
    /\ Awaiting(USER_STATE, ev.chat)
    /\ Keys(out) = <<"welcome">>

\* an unknown button arrived before any language was chosen
C2_WitnessNoLang ==
    /\ ev.kind = "button"
    /\ UnknownToken(ev.data)
    /\ ~HasLang(USER_STATE, ev.chat)
    /\ Keys(out) = <<"pick_lang">>

(* C3, as stated: selecting a package code absent from the catalog leaves   *)
(* the session's package unchanged, notifies nobody and re-offers the       *)
(* package list; a session's package is always unset or a catalog key; a    *)
(* package-detail reply is only produced for a catalog code.                *)

AbsentPkg(e) ==
    e.kind = "button" /\ StartsWith(e.data, "pkg") /\ SplitArg(e.data) \notin Packages

SamePackage(u, v, c) ==
    /\ ("package" \in DOMAIN Session(u, c)) = ("package" \in DOMAIN Session(v, c))
    /\ DictGet(Session(u, c), "package", None) = DictGet(Session(v, c), "package", None)

PackageIsCatalogKey ==
    \A c \in DOMAIN USER_STATE :
        "package" \in DOMAIN USER_STATE[c] => USER_STATE[c].package \in Packages

DetailOnlyForCatalogCode ==
    \A i \in 1..Len(out) :
        out[i].key = "package_detail"
        => /\ ev.kind = "button"
           /\ StartsWith(ev.data, "pkg")
           /\ SplitArg(ev.data) \in Packages
           /\ out[i].arg = SplitArg(ev.data)

C3_AbsentCodeReoffersList ==
    [][ /\ AbsentPkg(ev')
           => /\ SamePackage(USER_STATE, USER_STATE', ev'.chat)
              /\ admin' = admin
              /\ Keys(out') = <<"Package not found.">>
        /\ PackageIsCatalogKey'
        /\ DetailOnlyForCatalogCode' ]_vars

(* C3, amended: as above, except that the package list is re-offered only   *)
(* when the conversation has a language set; with no language set the       *)
(* reply is the language prompt.  In both cases the whole session is        *)
(* unchanged and the user gets no selection breadcrumb.                     *)

C3_AbsentCodeKeepsPackage ==
    [][ /\ AbsentPkg(ev')
           => /\ USER_STATE' = USER_STATE
              /\ admin' = admin
              /\ Keys(out') = << IF HasLang(USER_STATE, ev'.chat)
                                 THEN "Package not found." ELSE "pick_lang" >>
        /\ PackageIsCatalogKey'
        /\ DetailOnlyForCatalogCode' ]_vars

\* an absent code was selected while another package was already selected
C3_Witness ==
    /\ AbsentPkg(ev)
    /\ DictGet(Session(USER_STATE, ev.chat), "package", None) \in Packages
    /\ Keys(out) = <<"Package not found.">>

(* C4: while a phone is awaited, a text that fails the phone pattern gets   *)
(* the validation re-prompt and nothing else: the session store, the        *)
(* ledger and the admin chat are unchanged, so the session still awaits     *)
(* the phone and the same holds for the next invalid text.                  *)

C4_InvalidPhoneOnlyReprompts ==
    [][ ( /\ ev'.kind = "text"
          /\ Awaiting(USER_STATE, ev'.chat)
          /\ ~PHONE_RE(Strip(ev'.data)) )
        => /\ USER_STATE' = USER_STATE
           /\ Awaiting(USER_STATE', ev'.chat)
           /\ ledger' = ledger
           /\ admin' = admin
           /\ raised' = ""
           /\ Keys(out') = <<"phone_invalid">> ]_vars

\* a too short number was sent while a phone was awaited
C4_Witness ==
    /\ ev.kind = "text"
    /\ ev.data = Short123
    /\ Awaiting(USER_STATE, ev.chat)
    /\ Keys(out) = <<"phone_invalid">>

(* C5: every phone persisted on a session is canonical: an optional         *)
(* leading "+" followed by digits only, never a leading "00" (it is mapped  *)
(* to "+"); the stored string does not depend on the separators of the      *)
(* accepted input nor on writing the prefix as "00" or "+"; normalizing it  *)
(* again returns it unchanged.  The code does not do this.                  *)

\* the canonical form the claim describes: separators dropped, then "00" -> "+"
Canonical(text) ==
    LET d == KeepDigitsPlus(text)
    IN  IF Len(d) >= 2 /\ d[1] = "0" /\ d[2] = "0"
        THEN <<"+">> \o SubSeq(d, 3, Len(d))
        ELSE d

IsCanonical(p) ==
    /\ \A i \in 1..Len(p) : p[i] \in Digits \/ (i = 1 /\ p[i] = "+")
    /\ ~(Len(p) >= 2 /\ p[1] = "0" /\ p[2] = "0")

C5_PersistedPhoneIsCanonical ==
    \A c \in DOMAIN USER_STATE :
        "phone" \in DOMAIN USER_STATE[c]
        => /\ IsCanonical(USER_STATE[c].phone)
           /\ normalize_phone(USER_STATE[c].phone) = USER_STATE[c].phone
           /\ (ev.kind = "text" /\ ev.chat = c)
                 => USER_STATE[c].phone = Canonical(ev.data)

(* C6: a phone text is accepted (persisted on the session and written to   *)
(* the ledger) only if it has an optional leading "+", consists otherwise   *)
(* of digits and separators, and contains at least seven digits.  The code  *)
(* does not do this.                                                        *)

RECURSIVE DigitCount(_)
DigitCount(s) ==
    IF s = <<>> THEN 0
    ELSE (IF Head(s) \in Digits THEN 1 ELSE 0) + DigitCount(Tail(s))

MinDigits == 7

\* the last update was a text that any_text took as the phone
PhoneTextAccepted ==
    /\ ev.kind = "text"
    /\ Keys(out) = <<"phone_saved", "thank_you">>
    /\ ledger # <<>>
    /\ ledger[Len(ledger)].phone = DictGet(Session(USER_STATE, ev.chat), "phone", <<>>)

C6_AcceptedPhoneHasSevenDigits ==
    PhoneTextAccepted
    => LET txt == Strip(ev.data)
       IN  /\ \A i \in 1..Len(txt) :
                 txt[i] \in PhoneBodyChars \/ (i = 1 /\ txt[i] = "+")
           /\ DigitCount(txt) >= MinDigits

(* C7: when the delivery of an admin notification fails (on "I paid", on an *)
(* accepted phone text, on a shared contact) the handler raises nothing,    *)
(* keeps the session update of the event, still appends the event's ledger  *)
(* record and still sends the user-facing replies.                          *)

AdminFailed(lg) == \E i \in 1..Len(lg) : lg[i] = "admin_notify_failed"

PhoneKept(u, c, phone) ==
    /\ DictGet(Session(u, c), "phone", <<>>) = phone
    /\ "awaiting_phone" \in DOMAIN Session(u, c)
    /\ ~Session(u, c).awaiting_phone

OrderAppended(old, new, c, u, phone, now) ==
    new = Append(old, [chat_id |-> c, package |-> DictGet(Session(u, c), "package", None),
                       phone |-> phone, ts |-> now])

C7_AdminFailureIsContained ==
    [][ AdminFailed(log')
        => /\ raised' = ""
           /\ admin' = admin
           /\ ev'.kind \in {"button", "text", "contact"}
           /\ ev'.kind = "button"
                => /\ USER_STATE' = set_state(USER_STATE, ev'.chat, "awaiting_phone", TRUE)
                   /\ ledger' = ledger
                   /\ Keys(out') = <<"breadcrumb_paid", "phone_request">>
           /\ ev'.kind \in {"text", "contact"}
                => /\ PhoneKept(USER_STATE', ev'.chat, normalize_phone(ev'.data))
                   /\ OrderAppended(ledger, ledger', ev'.chat, USER_STATE,
                                     normalize_phone(ev'.data), clock)
                   /\ Keys(out') = <<"phone_saved", "thank_you">> ]_vars

\* the admin could not be told of an accepted phone text: order and replies stand
C7_Witness ==
    /\ AdminFailed(log)
    /\ ev.kind = "text"
    /\ ledger # <<>>
    /\ Keys(out) = <<"phone_saved", "thank_you">>

\* the admin could not be told of an "I paid" tap
C7_WitnessPaid ==
    /\ AdminFailed(log)
    /\ ev.kind = "button"
    /\ Awaiting(USER_STATE, ev.chat)

\* the admin could not be told of a shared contact
C7_WitnessContact ==
    /\ AdminFailed(log)
    /\ ev.kind = "contact"
    /\ ledger # <<>>

(* C8: a record is appended to the ledger only when a session that awaits   *)
(* the phone after an "I paid" tap receives an accepted phone, and then     *)
(* exactly one; no other event in any state (a text, a button, a contact    *)
(* shared while none is awaited) appends a record.  The code does not do    *)
(* this.                                                                    *)

C8_OrderOnlyWhenAwaited ==
    [][ ledger' # ledger
        => /\ ev'.kind \in {"text", "contact"}
           /\ Awaiting(USER_STATE, ev'.chat)
           /\ ~Awaiting(USER_STATE', ev'.chat)
           /\ Len(ledger') = Len(ledger) + 1
           /\ SubSeq(ledger', 1, Len(ledger)) = ledger ]_vars

(* C9: the ledger is append-only and its records are pairwise distinct      *)
(* orders: a second completed flow of a conversation adds a second record   *)
(* that can be told from the first, and no event changes or removes a       *)
(* record.  The code does not do this: its records carry no order id.       *)

C9_AppendOnlyDistinctOrders ==
    [][ /\ Len(ledger') >= Len(ledger)
        /\ SubSeq(ledger', 1, Len(ledger)) = ledger
        /\ \A i, j \in 1..Len(ledger') : i # j => ledger'[i] # ledger'[j] ]_vars

(* C10: after the Scenario (language en, subscribe, package Premium, agree, *)
(* I paid, phone +971501234567, proof TXN123) from a fresh start the ledger *)
(* holds exactly one order, with package Premium, price 250, phone          *)
(* +971501234567 and proof TXN123.  The code does not do this.              *)

ScenarioPrice == 250

C10_ScenarioOrder ==
    pos = Len(Scenario)
    => /\ Len(ledger) = 1
       /\ ledger[1].package = "AEIPTV Premium"
       /\ ledger[1].phone = Plus971
       /\ "price" \in DOMAIN ledger[1] /\ ledger[1].price = ScenarioPrice
       /\ "proof" \in DOMAIN ledger[1] /\ ledger[1].proof = TXN123

(* C11: over the Scenario the admin receives exactly three notifications,   *)
(* of kinds selection, agreement and new-order, in that order: one when the *)
(* package is selected, one when agree is tapped, one when the proof is     *)
(* accepted.  The code does not do this.                                    *)

Kinds(notes) == [i \in 1..Len(notes) |-> notes[i].kind]

C11_ScenarioNotifications ==
    /\ pos = Len(Scenario) => Kinds(admin) = <<"selection", "agreement", "new_order">>
    /\ pos = 3 => Kinds(admin) = <<"selection">>
    /\ pos = 4 => Kinds(admin) = <<"selection", "agreement">>

(* C12: an "I paid" tap makes the session await the phone only if no phone  *)
(* is stored for the conversation; with a phone already known the tap       *)
(* neither sets awaiting-phone nor requests the phone again.  The code      *)
(* does not do this.                                                        *)

PaidTap(e) == e.kind = "button" /\ StartsWith(e.data, "paid")

C12_KnownPhoneIsNotAskedAgain ==
    [][ ( /\ PaidTap(ev')
          /\ "phone" \in DOMAIN Session(USER_STATE, ev'.chat)
          /\ ~Awaiting(USER_STATE, ev'.chat) )
        => /\ ~Awaiting(USER_STATE', ev'.chat)
           /\ \A i \in 1..Len(out') : out'[i].key # "phone_request" ]_vars

(* C13: from any state past language selection, awaiting phone included, a *)
(* "back to home" tap puts the session in the menu: it no longer awaits a   *)
(* phone, and the text that                                                 *)
(* follows is answered with the menu, is not validated as a phone, appends  *)
(* no ledger record and notifies nobody.  The code does not do this.        *)

BackHome(e) == e.kind = "button" /\ e.data = <<"back_home">>

C13_BackHomeEndsPhoneWait ==
    [][ /\ (BackHome(ev') /\ HasLang(USER_STATE, ev'.chat))
             => ~Awaiting(USER_STATE', ev'.chat)
        /\ (BackHome(ev) /\ HasLang(USER_STATE, ev.chat)
                /\ ev'.kind = "text" /\ ev'.chat = ev.chat)
             => /\ Keys(out') = <<"welcome">>
                /\ ledger' = ledger
                /\ admin' = admin ]_vars

(* C14: while the conversation has no language set, a free text, /start or *)
(* /help, and a button tap other than a language choice are answered with   *)
(* the language prompt and nothing else; the session store, the ledger and  *)
(* the admin channel stay as they were, so repeating the event yields the   *)
(* same prompt and the same state.                                          *)

NotLanguageChoice(e) ==
    \/ e.kind \in {"text", "start"}
    \/ e.kind = "button" /\ ~StartsWith(e.data, "lang")

C14_NoLanguageOnlyPrompts ==
    [][ (NotLanguageChoice(ev') /\ ~HasLang(USER_STATE, ev'.chat))
        => /\ USER_STATE' = USER_STATE
           /\ ledger' = ledger
           /\ admin' = admin
           /\ raised' = ""
           /\ Keys(out') = <<"pick_lang">> ]_vars

C14_Witness ==
    /\ ev.kind = "button" /\ ev.data = <<"paid", "AEIPTV Premium">>
    /\ ~HasLang(USER_STATE, ev.chat)
    /\ "phone" \in DOMAIN Session(USER_STATE, ev.chat)
    /\ Keys(out) = <<"pick_lang">>

C14_WitnessText ==
    /\ ev.kind = "text"
    /\ ~HasLang(USER_STATE, ev.chat)
    /\ Keys(out) = <<"pick_lang">>

(* C15: a language choice stores its tag only when the tag is one of the    *)
(* supported languages ar and en.  As stated, a choice of any other tag     *)
(* re-prompts for the language and leaves the language field unchanged      *)
(* (C15_UnsupportedTagReprompts); the code instead recovers by storing the  *)
(* default language ar and showing the main menu in it                      *)
(* (C15_UnsupportedTagDefaultsToArabic).                                    *)

Supported == {"ar", "en"}

LanguageChoice(e) == e.kind = "button" /\ StartsWith(e.data, "lang")

SameLang(c) ==
    /\ HasLang(USER_STATE', c) <=> HasLang(USER_STATE, c)
    /\ DictGet(Session(USER_STATE', c), "lang", None)
         = DictGet(Session(USER_STATE, c), "lang", None)

FlowEvent(e) ==
    \/ /\ e.kind = "button"
       /\ StartsWith(e.data, "pkg") \/ StartsWith(e.data, "agree")
            \/ StartsWith(e.data, "paid")
       /\ HasLang(USER_STATE, e.chat)
    \/ /\ e.kind = "text"
       /\ Awaiting(USER_STATE, e.chat)
       /\ PHONE_RE(Strip(e.data))

\* the run of the handler for e from the current stores when everything delivers
Delivered(e) ==
    IF e.kind = "button"
    THEN on_button(USER_STATE, ledger, admin, e.chat, e.data, NoFault)
    ELSE any_text(USER_STATE, ledger, admin, e.chat, e.data, NoFault, clock)

C16_ChatFailureKeepsTransition ==
    [][ FlowEvent(ev') => USER_STATE' = Delivered(ev').u ]_vars

C16_ChatFailureIsNotRaised ==
    [][ FlowEvent(ev') => raised' = "" ]_vars

C16_FailedEditIsSentAnew ==
    [][ ( /\ ev'.kind = "button"
          /\ \E i \in 1..Len(log') : log'[i] = "edit_failed"
          /\ \A i \in 1..Len(log') : log'[i] # "send_fallback_failed" )
        => /\ raised' = ""
           /\ out' # <<>>
           /\ out'[Len(out')].via = "send"
           /\ out'[Len(out')].key = Delivered(ev').out[Len(Delivered(ev').out)].key
           /\ USER_STATE' = Delivered(ev').u ]_vars

(* C17: in every reachable state a session that awaits a phone has a        *)
(* selected package, a key of the catalog, and a language set.  The code    *)
(* does not keep this.                                                      *)

C17_AwaitingHasPackageAndLanguage ==
    \A c \in DOMAIN USER_STATE :
        Awaiting(USER_STATE, c)
        => /\ HasLang(USER_STATE, c)
           /\ DictGet(Session(USER_STATE, c), "package", None) \in Packages

C17_AwaitingHasLanguage ==
    \A c \in DOMAIN USER_STATE : Awaiting(USER_STATE, c) => HasLang(USER_STATE, c)

(* C18: a reply that reveals a payment link is produced only in response to *)
(* an "agree" tap made after a package was selected in that session, and    *)
(* the link is the payment target of the session's currently selected       *)
(* package.  The code does not do this.                                     *)

AgreeTap(e) == e.kind = "button" /\ StartsWith(e.data, "agree")

C18_LinkOnlyAfterSelection ==
    \A i \in 1..Len(out) :
        out[i].url # ""
        => /\ AgreeTap(ev)
           /\ "package" \in DOMAIN Session(USER_STATE, ev.chat)
           /\ out[i].url = PACKAGES[Session(USER_STATE, ev.chat).package].payment_url

C18_LinkOnlyOnAgree ==
    \A i \in 1..Len(out) :
        out[i].url # ""
        => /\ AgreeTap(ev)
           /\ SplitArg(ev.data) \in Packages
           /\ out[i].url = PACKAGES[SplitArg(ev.data)].payment_url

(* C19: a second "I paid" tap while the session already awaits the phone is *)
(* idempotent: it shows the phone prompt again, leaves the session          *)
(* unchanged and sends no further admin notification.  The code does not do *)
(* this.                                                                    *)

C19_SecondPaidTapIsIdempotent ==
    [][ (PaidTap(ev') /\ Awaiting(USER_STATE, ev'.chat))
        => /\ USER_STATE' = USER_STATE
           /\ admin' = admin
           /\ \E i \in 1..Len(out') : out'[i].key = "phone_request" ]_vars

C19_SecondPaidTapKeepsSession ==
    [][ (PaidTap(ev') /\ Awaiting(USER_STATE, ev'.chat))
        => /\ USER_STATE' = USER_STATE
           /\ ledger' = ledger
           /\ \E i \in 1..Len(out') : out'[i].key = "phone_request" ]_vars

(* C20: conversations are independent.  Handling an event of conversation A *)
(* leaves the session record of every other conversation B unchanged, and   *)
(* the session A gets from the event is the one it gets when A is the only  *)
(* conversation the program has ever seen: so the session A reaches after a *)
(* sequence of its own events is the same whatever events of other          *)
(* conversations are interleaved.                                           *)

\* the store with every conversation but c forgotten
Alone(u, c) == [k \in DOMAIN u \cap {c} |-> u[k]]

\* the handler run for e when c is the only conversation and nothing is on file
RunAlone(e) ==
    IF e.kind = "button"
    THEN on_button(Alone(USER_STATE, e.chat), <<>>, <<>>, e.chat, e.data, NoFault)
    ELSE any_text(Alone(USER_STATE, e.chat), <<>>, <<>>, e.chat, e.data, NoFault, clock)

C20_ConversationsAreIndependent ==
    [][ ev'.kind \in {"button", "text"}
        => /\ \A b \in TwoChats \ {ev'.chat} :
                /\ b \in DOMAIN USER_STATE' <=> b \in DOMAIN USER_STATE
                /\ Session(USER_STATE', b) = Session(USER_STATE, b)
           /\ Session(USER_STATE', ev'.chat) = Session(RunAlone(ev').u, ev'.chat)
           /\ out' = RunAlone(ev').out ]_vars

C20_Witness ==
    /\ ev.chat = 2
    /\ PaidTap(ev)
    /\ Awaiting(USER_STATE, 1)
    /\ get_lang(USER_STATE, 1) = "en"
    /\ "package" \in DOMAIN Session(USER_STATE, 1)
    /\ Awaiting(USER_STATE, 2)
    /\ get_lang(USER_STATE, 2) = "ar"
    /\ "package" \notin DOMAIN Session(USER_STATE, 2)

(* C21: the events of one conversation are handled strictly in the order    *)
(* received and no two of its handlers are in flight at once: no handler    *)
(* runs between another handler's read of the session and its writes, so    *)
(* when a handler returns, the session, the ledger and the admin channel    *)
(* are what handling every update up to this one, one after the other in    *)
(* the order of receipt, gives: no update is lost or made on stale data.    *)

InOrder(h) ==
    /\ USER_STATE' = h.e.want.u
    /\ ledger' = h.e.want.led
    /\ admin' = h.e.want.adm
    /\ out' = h.e.want.out

C21_OneHandlerAtATime ==
    [][ /\ Len(flight') <= 1
        /\ \A i \in 1..Len(flight) :
              (flight' = Remove(flight, i) /\ flight[i].pc = End) => InOrder(flight[i]) ]_vars

C21_HandlersReturnInOrder ==
    [][ \A i \in 1..Len(flight) :
          (flight' = Remove(flight, i) /\ flight[i].pc = End) => InOrder(flight[i]) ]_vars

C21_Witness ==
    /\ ev.kind = "button" /\ StartsWith(ev.data, "pkg")
    /\ flight # <<>>
    /\ flight[1].e.kind = "button" /\ StartsWith(flight[1].e.data, "paid")
    /\ flight[1].pc = 2
    /\ ~Awaiting(USER_STATE, flight[1].e.chat)
    /\ queue # <<>>
    /\ queue[1].kind = "text"

====
